---------------------------- MODULE Spec2Model ----------------------------
(***************************************************************************)
(* A model of the SAFT-gamma-SW equation-of-state object (gamma_sw.py), of *)
(* the batch calculation types that drive it (calc_types.py) and of the    *)
(* process that starts a calculation (__main__.py, main.py).               *)
(*                                                                         *)
(* Numbers.  The program computes in IEEE doubles.  The model computes on  *)
(* an integer grid: every physical quantity is an integer multiple of a    *)
(* model unit, a division rounds down to the grid (as a float division     *)
(* rounds to the nearest double), and the float NaN is the reserved value  *)
(* NaN, which the comparison operators FloatEq, FloatGt and FloatLt treat  *)
(* as unordered, as IEEE does.  Units: mole fractions in units of          *)
(* 1/Sum(a valid xi); lengths, energies and shape factors in their grid    *)
(* unit; alphakl in units of 2*pi/3; densities in the unit in which        *)
(* zeta_3 = rho * Cmol2seg * sum_k(sqrt(xskl_kk) * sigma_kk^3) / ZetaUnit. *)
(***************************************************************************)
EXTENDS Integers, Sequences, FiniteSets, TLC

VARIABLES
    phase,      \* "new" (no object yet), "built", "failed" (constructor raised)
    eos_dict,   \* self.eos_dict of the gamma_sw object
    xi,         \* self.xi, the last-seen composition (<<NaN>> after construction)
    alphakl,    \* self.alphakl
    last,       \* the last call on the object: operation, inputs, outcome
    batch,      \* a batch calculation (calc_types.py): its points and results
    pc,         \* per worker: position inside an evaluation on a shared object
    wxi,        \* per worker: the xi argument of its evaluation
    wloc,       \* per worker: values held in locals (computed pair, values read)
    rho,        \* the density array the caller evaluates on
    proc        \* a despasito process: its arguments and how far it has come

vars == <<phase, eos_dict, xi, alphakl, last, batch, pc, wxi, wloc, rho, proc>>

-----------------------------------------------------------------------------
(* Bounds of the model *)

\* Longest density array passed to an operation.
MaxLen == 2
\* Largest density value, in model density units.
MaxRho == 3
\* Most evaluation points in one batch.
MaxPoints == 2
\* Workers evaluating concurrently against one shared object.
NWorkers == 2

-----------------------------------------------------------------------------
(* Floats *)

\* np.nan
NaN == -99
\* A value absent from a dictionary (the key is not set).
None == -98

FloatEq(a, b) == a # NaN /\ b # NaN /\ a = b
FloatGt(a, b) == a # NaN /\ b # NaN /\ a > b
FloatLt(a, b) == a # NaN /\ b # NaN /\ a < b

RECURSIVE SumSeq(_)
SumSeq(s) == IF s = <<>> THEN 0 ELSE Head(s) + SumSeq(Tail(s))

RECURSIVE SumOver(_, _)
\* Sum of f[x] over the finite set S.
SumOver(f, S) ==
    IF S = {} THEN 0
    ELSE LET x == CHOOSE y \in S : TRUE IN f[x] + SumOver(f, S \ {x})

RECURSIVE Table(_, _)
\* The array <<f[1], ..., f[n]>>, every entry computed once.
Table(f, n) == IF n = 0 THEN <<>> ELSE Append(Table(f, n - 1), f[n])

Cube(x) == x * x * x

RECURSIVE SqrtIn(_, _, _)
\* The r in lo..(hi - 1) with r*r <= n < (r + 1)*(r + 1), by bisection.
SqrtIn(n, lo, hi) ==
    IF hi - lo <= 1 THEN lo
    ELSE LET mid == (lo + hi) \div 2
         IN  IF mid * mid <= n THEN SqrtIn(n, mid, hi) ELSE SqrtIn(n, lo, mid)
\* Largest r with r*r <= n: np.sqrt on the grid.
ISqrt(n) == SqrtIn(n, 0, n + 1)

RECURSIVE CbrtIn(_, _, _)
CbrtIn(n, lo, hi) ==
    IF hi - lo <= 1 THEN lo
    ELSE LET mid == (lo + hi) \div 2
         IN  IF Cube(mid) <= n THEN CbrtIn(n, mid, hi) ELSE CbrtIn(n, lo, mid)
\* Largest r with r^3 <= n: x**(1.0/3.0) on the grid.
ICbrt(n) == CbrtIn(n, 0, n + 1)

RECURSIVE GCD(_, _)
GCD(a, b) == IF b = 0 THEN a ELSE GCD(b, a % b)

\* Exact fractions <<numerator, denominator>>, reduced, denominator > 0.
Frac(n, d) == LET g == GCD(n, d) IN <<n \div g, d \div g>>
FracAdd(p, q) == Frac(p[1] * q[2] + q[1] * p[2], p[2] * q[2])
FracMul(p, q) == Frac(p[1] * q[1], p[2] * q[2])
FracDiv(p, q) == Frac(p[1] * q[2], p[2] * q[1])
FracSqrt(p) == <<ISqrt(p[1]), ISqrt(p[2])>>
FracOfInt(n) == <<n, 1>>

RECURSIVE FracSum(_, _)
\* Sum of the fractions f[x] over the finite set S.
FracSum(f, S) ==
    IF S = {} THEN <<0, 1>>
    ELSE LET x == CHOOSE y \in S : TRUE IN FracAdd(f[x], FracSum(f, S \ {x}))

-----------------------------------------------------------------------------
(* The inputs of the constructor: beads, composition matrix, libraries *)

\* kwargs['beads']: the unique bead names.
beads == <<"A", "B">>
\* kwargs['nui']: nui[i][k] beads of type beads[k] in component i.
nui == << <<1, 0>>, <<1, 2>> >>
ncomp == Len(nui)
nbeads == Len(nui[1])
Comps == 1..ncomp
BeadIx == 1..nbeads

\* Bead-library entries (self-interaction parameters of one bead).
EntryA  == [sigma |-> 2, epsilon |-> 4, lambda |-> 2, Sk |-> 1, Vks |-> 1, mass |-> 1]
EntryA2 == [sigma |-> 2, epsilon |-> 8, lambda |-> 3, Sk |-> 2, Vks |-> 1, mass |-> 1]
EntryB  == [sigma |-> 4, epsilon |-> 8, lambda |-> 2, Sk |-> 1, Vks |-> 1, mass |-> 2]

\* The two beads with their wells switched off.
EntryA0 == [EntryA EXCEPT !.epsilon = 0]
EntryB0 == [EntryB EXCEPT !.epsilon = 0]
NoWell == [b \in {"A", "B"} |-> IF b = "A" THEN EntryA0 ELSE EntryB0]

\* kwargs['beadlibrary'] as read from the input file.
Libraries == { [b \in {"A", "B"} |-> IF b = "A" THEN EntryA ELSE EntryB] }
\* kwargs['crosslibrary']: no override, or an override given for one ordering.
NoCross == [b \in {} |-> 0]
CrossAB == [b \in {"A"} |-> [c \in {"B"} |-> [sigma |-> 4]]]
CrossBA == [b \in {"B"} |-> [c \in {"A"} |-> [epsilon |-> 2]]]
CrossLibraries == {NoCross, CrossAB}

\* The updates the fitting driver hands to parameter_refresh.
BeadUpdates ==
    { [b \in {} |-> EntryA], [b \in {"A"} |-> EntryA], [b \in {"A"} |-> EntryA2],
      [b \in {"B"} |-> EntryB] }
\* The updates of a fit that switches the wells off and on again.
WellUpdates == { NoWell, [b \in {"A"} |-> EntryA] }
CrossUpdates == {NoCross, CrossAB, CrossBA}

\* Mole-fraction vectors, in halves (each sums to one).
Compositions == { <<2, 0>>, <<1, 1>>, <<0, 2>> }

\* The keys the constructor looks for in kwargs.
needed_attributes == <<"nui", "beads", "beadlibrary">>
KwargKeys == {"nui", "beads", "beadlibrary", "crosslibrary", "num_rings"}

-----------------------------------------------------------------------------
(* toolbox: the Mixing-Rule Engine *)

\* dict.update(other): every key of other replaces or adds the whole entry.
DictUpdate(d, u) ==
    [k \in DOMAIN d \cup DOMAIN u |-> IF k \in DOMAIN u THEN u[k] ELSE d[k]]

\* mixing rule "mean": arithmetic mean of the two self-values.
mean(a, b) == (a + b) \div 2
\* mixing rule "weighted_mean": mean weighted by the cubes of the beads' sizes.
weighted_mean(la, lb, sa, sb) ==
    (Cube(sa) * la + Cube(sb) * lb) \div (Cube(sa) + Cube(sb))
\* mixing rule "square_well_berthelot": geometric mean of the well depths,
\* scaled by the ratio of the self sizes to the cross size, cubed.
square_well_berthelot(ea, eb, sa, sb) ==
    ISqrt(ea * eb * Cube(sa) * Cube(sb)) \div Cube(mean(sa, sb))

\* The override of parameter p for the pair (a, b) in the cross table, under
\* either ordering, or None.
CrossEntry(cross, a, b, p) ==
    IF a \in DOMAIN cross /\ b \in DOMAIN cross[a] /\ p \in DOMAIN cross[a][b]
    THEN cross[a][b][p]
    ELSE IF b \in DOMAIN cross /\ a \in DOMAIN cross[b] /\ p \in DOMAIN cross[b][a]
    THEN cross[b][a][p]
    ELSE None

MixedValue(lib, a, b, p) ==
    CASE p = "sigma"   -> mean(lib[a].sigma, lib[b].sigma)
      [] p = "lambda"  -> weighted_mean(lib[a].lambda, lib[b].lambda,
                                        lib[a].sigma, lib[b].sigma)
      [] p = "epsilon" -> square_well_berthelot(lib[a].epsilon, lib[b].epsilon,
                                                lib[a].sigma, lib[b].sigma)

\* A matrix that honours an override only in the ordering it was given in.
CrossMatrixGivenOrder(names, lib, cross, p) ==
    Table([k \in 1..Len(names) |-> Table([l \in 1..Len(names) |->
        IF k = l THEN lib[names[k]][p]
        ELSE IF /\ names[k] \in DOMAIN cross
                /\ names[l] \in DOMAIN cross[names[k]]
                /\ p \in DOMAIN cross[names[k]][names[l]]
             THEN cross[names[k]][names[l]][p]
             ELSE MixedValue(lib, names[k], names[l], p)], Len(names))], Len(names))

\* One parameter's matrix: the diagonal from the self-parameters, the rest
\* from the override when there is one, else from the mixing rule.
CrossMatrix(names, lib, cross, p) ==
    Table([k \in 1..Len(names) |-> Table([l \in 1..Len(names) |->
        IF k = l THEN lib[names[k]][p]
        ELSE LET a == names[IF k < l THEN k ELSE l]
                 b == names[IF k < l THEN l ELSE k]
             IN  IF CrossEntry(cross, a, b, p) # None
                 THEN CrossEntry(cross, a, b, p)
                 ELSE MixedValue(lib, a, b, p)], Len(names))], Len(names))

cross_interaction_from_dict(names, lib, cross) ==
    [sigma   |-> CrossMatrix(names, lib, cross, "sigma"),
     epsilon |-> CrossMatrix(names, lib, cross, "epsilon"),
     lambda  |-> CrossMatrix(names, lib, cross, "lambda")]

\* tb.extract_property(p, beadlibrary, beads): the per-bead vector of p.
extract_property(p, lib, names) == [k \in 1..Len(names) |-> lib[names[k]][p]]
\* tb.calc_massi: massi[i] = sum_k nui[i,k] * mass[k].
calc_massi(n, lib, names) ==
    [i \in 1..Len(n) |->
        SumOver([k \in 1..Len(names) |-> n[i][k] * lib[names[k]].mass],
                1..Len(names))]

-----------------------------------------------------------------------------
(* saft_toolbox: composition-dependent variables *)

\* stb.calc_composition_dependent_variables(xi, nui, beadlibrary, beads):
\* Cmol2seg = sum_i sum_k xi[i]*nui[i,k]*Vks[k]*Sk[k], and the segment
\* fractions xskl[k,l] = xsk[k]*xsk[l] with xsk[k] the share of bead k in it.
calc_composition_dependent_variables(x, n, lib, names) ==
    LET nsk == Table([k \in 1..Len(names) |->
                        SumOver([i \in 1..Len(n) |-> x[i] * n[i][k]], 1..Len(n))
                        * lib[names[k]].Vks * lib[names[k]].Sk], Len(names))
        C == SumOver(nsk, 1..Len(names))
    IN  [Cmol2seg |-> C,
         xskl |-> Table([k \in 1..Len(names) |-> Table([l \in 1..Len(names) |->
                      Frac(nsk[k] * nsk[l], C * C)], Len(names))], Len(names))]

-----------------------------------------------------------------------------
(* gamma_sw: construction and component averaging *)

\* zki[i,k] before normalisation, and its row total zkinorm[i].
zkiRaw(d, i, k) == d.nui[i][k] * d.Vks[k] * d.Sk[k]
zkinorm(d, i) == SumOver([k \in BeadIx |-> zkiRaw(d, i, k)], BeadIx)
\* A fraction normalised by the number of bead types instead of the row total.
zkiByCount(d, i, k) == Frac(zkiRaw(d, i, k), nbeads)
\* The occupied-volume fraction of bead k in component i.
zki(d, i, k) == Frac(zkiRaw(d, i, k), zkinorm(d, i))

\* The component averages sigmaii, epsilonii, lambdaii of the loop.
sigmaii(d, i) ==
    ICbrt(SumOver([k \in BeadIx |-> zkiRaw(d, i, k) * Cube(d.sigma_kl[k][k])], BeadIx)
          \div zkinorm(d, i))
PairAverage(d, i, M) ==
    SumOver([k \in BeadIx |->
               SumOver([l \in BeadIx |-> zkiRaw(d, i, k) * zkiRaw(d, i, l) * M[k][l]],
                       BeadIx)], BeadIx)
    \div (zkinorm(d, i) * zkinorm(d, i))

\* tb.construct_dummy_beadlibrary: one dummy bead per component.
construct_dummy_beadlibrary(d) ==
    Table([i \in Comps |-> [sigma   |-> sigmaii(d, i),
                            lambda  |-> PairAverage(d, i, d.lambda_kl),
                            epsilon |-> PairAverage(d, i, d.epsilon_kl)]], ncomp)

\* calc_component_averaged_properties: eos_dict with sigma_ij, lambda_ij and
\* epsilon_ij set from its current bead-pair matrices, Vks and Sk.
calc_component_averaged_properties(d) ==
    LET labels == Table([i \in Comps |-> i], ncomp)
        out == cross_interaction_from_dict(labels, construct_dummy_beadlibrary(d), NoCross)
    IN  [d EXCEPT !.sigma_ij = out.sigma, !.lambda_ij = out.lambda,
                  !.epsilon_ij = out.epsilon]

\* The attractive strength integral, in units of 2*pi/3.
AlphaOf(d) ==
    [k \in BeadIx |-> [l \in BeadIx |->
        d.epsilon_kl[k][l] * Cube(d.sigma_kl[k][l]) * (Cube(d.lambda_kl[k][l]) - 1)]]

NoMatrix == <<>>
\* eos_dict before the constructor has stored anything.
EmptyDict ==
    [nui |-> <<>>, beads |-> <<>>, beadlibrary |-> NoCross, crosslibrary |-> NoCross,
     massi |-> <<>>, Vks |-> <<>>, Sk |-> <<>>, num_rings |-> <<>>,
     sigma_kl |-> NoMatrix, epsilon_kl |-> NoMatrix, lambda_kl |-> NoMatrix,
     sigma_ij |-> NoMatrix, epsilon_ij |-> NoMatrix, lambda_ij |-> NoMatrix,
     Cmol2seg |-> None, xskl |-> NoMatrix]

\* eos_dict as __init__ leaves it, given the bead and cross libraries.
InitDict(lib, cross) ==
    LET out == cross_interaction_from_dict(beads, lib, cross)
        d0 == [EmptyDict EXCEPT
                 !.nui = nui, !.beads = beads, !.beadlibrary = lib,
                 !.crosslibrary = cross,
                 !.massi = calc_massi(nui, lib, beads),
                 !.Vks = extract_property("Vks", lib, beads),
                 !.Sk = extract_property("Sk", lib, beads),
                 !.sigma_kl = out.sigma, !.epsilon_kl = out.epsilon,
                 !.lambda_kl = out.lambda,
                 !.num_rings = [i \in Comps |-> 0]]
    IN  calc_component_averaged_properties(d0)

-----------------------------------------------------------------------------
(* gamma_sw: the input checks and the composition cache *)

\* constants.molecule_per_nm3 * pi/6, inverted, in model density units.
ZetaUnit == 40
\* The default of density_max's maxpack, 0.65.
maxpack == <<13, 20>>

\* _check_density without its last branch.
check_density_no_sign(r) ==
    IF \E j \in 1..Len(r) : r[j] = NaN THEN "NaN was given"
    ELSE IF Len(r) = 0 THEN "No value of density"
    ELSE "ok"

\* _check_density(rho): "ok", or which ValueError it raises.  A scalar is
\* promoted to a one-element array before the checks.
check_density(r) ==
    IF \E j \in 1..Len(r) : r[j] = NaN THEN "NaN was given"
    ELSE IF Len(r) = 0 THEN "No value of density"
    ELSE IF \E j \in 1..Len(r) : FloatLt(r[j], 0) THEN "cannot be negative"
    ELSE "ok"

\* np.all(self.xi == xi): elementwise float equality, a one-element self.xi
\* (the initial np.nan) broadcast over xi.
XiAllEqual(sx, x) ==
    \A i \in 1..Len(x) : FloatEq(IF Len(sx) = 1 THEN sx[1] ELSE sx[i], x[i])

\* The cached pair as the formulas read it from eos_dict.
CachedPair(d) == [Cmol2seg |-> d.Cmol2seg, xskl |-> d.xskl]

\* A cache that is filled once and then only re-labelled with the new xi.
check_composition_fill_once(d, sx, x) ==
    IF d.Cmol2seg = None
    THEN LET c == calc_composition_dependent_variables(x, d.nui, d.beadlibrary, d.beads)
         IN  [d |-> [d EXCEPT !.Cmol2seg = c.Cmol2seg, !.xskl = c.xskl],
              xi |-> x, recomputed |-> TRUE]
    ELSE [d |-> d, xi |-> x, recomputed |-> ~XiAllEqual(sx, x)]

\* _check_composition_dependent_parameters(xi): recompute the pair and store
\* xi when xi is not the last-seen composition; else leave both.
check_composition_dependent_parameters(d, sx, x) ==
    IF ~XiAllEqual(sx, x)
    THEN LET c == calc_composition_dependent_variables(x, d.nui, d.beadlibrary, d.beads)
         IN  [d |-> [d EXCEPT !.Cmol2seg = c.Cmol2seg, !.xskl = c.xskl],
              xi |-> x, recomputed |-> TRUE]
    ELSE [d |-> d, xi |-> sx, recomputed |-> FALSE]

-----------------------------------------------------------------------------
(* gamma_sw: the formulas the claims read *)

\* reduced_density(rho, xi)[:, m] for one density, from the cached pair and
\* the diagonal of sigma_kl.
zeta(d, r, m) ==
    FracMul(Frac(r * d.Cmol2seg, ZetaUnit),
            FracSum([k \in BeadIx |->
                       FracMul(FracSqrt(d.xskl[k][k]),
                               FracOfInt(IF m = 0 THEN 1
                                         ELSE IF m = 1 THEN d.sigma_kl[k][k]
                                         ELSE IF m = 2 THEN d.sigma_kl[k][k] * d.sigma_kl[k][k]
                                         ELSE Cube(d.sigma_kl[k][k])))],
                    BeadIx))

\* density_max(xi, T, maxpack) once the cache holds the pair of xi.
maxrho(d) ==
    FracDiv(FracMul(maxpack, FracOfInt(ZetaUnit)),
            FracMul(FracOfInt(d.Cmol2seg),
                    FracSum([kl \in BeadIx \X BeadIx |->
                               FracMul(d.xskl[kl[1]][kl[2]],
                                       FracOfInt(Cube(d.sigma_kl[kl[1]][kl[2]])))],
                            BeadIx \X BeadIx)))

\* rho > maxrho and rho >= maxrho for a float rho and the fraction maxrho.
AboveMax(r, mx) == r # NaN /\ r * mx[2] > mx[1]
AtOrAboveMax(r, mx) == r # NaN /\ r * mx[2] >= mx[1]

\* Whether the closed form of Ahard_sphere is a finite number at one density:
\* 6/(pi*rho) divides by zero at rho = 0, and log1p(-zeta3), 1/(1-zeta3)
\* are infinite or NaN from zeta3 = 1 on.
HardSphereClass(d, r) ==
    LET z3 == zeta(d, r, 3)
    IN  IF r = 0 \/ z3[1] = 0 \/ z3[1] >= z3[2] THEN "nonfinite" ELSE "finite"

-----------------------------------------------------------------------------
(* The calls on the object *)

NoPair == [Cmol2seg |-> None, xskl |-> NoMatrix]

\* The record of a call: what was called with what, whether it returned or
\* raised (and which exception, with which message), whether the cache was
\* recomputed, the cached pair its formulas read, and the class of the
\* hard-sphere term per density (for Ahard_sphere and Amonomer).
Call(op, r, x, kw, outcome, exc, msg, recomputed, used, hs) ==
    [op |-> op, rho |-> r, x |-> x, kwargs |-> kw, outcome |-> outcome,
     exc |-> exc, msg |-> msg, recomputed |-> recomputed, used |-> used, hs |-> hs]

NoCall == Call("none", <<>>, <<>>, {}, "ok", "", "", FALSE, NoPair, <<>>)
Returned(op, r, x, recomputed, used, hs) ==
    Call(op, r, x, {}, "ok", "", "", recomputed, used, hs)
Raised(op, r, x, exc, msg, recomputed) ==
    Call(op, r, x, {}, "raised", exc, msg, recomputed, NoPair, <<>>)

\* What line 84 raises for a missing input: the message formats the name tmp,
\* which nothing defines, so evaluating the raise statement's argument fails.
MissingInputError == "NameError"

\* __init__(kwargs)
Construct(kw, lib, cross) ==
    /\ phase = "new"
    /\ IF \E j \in 1..Len(needed_attributes) : needed_attributes[j] \notin kw
       THEN LET miss == CHOOSE j \in 1..Len(needed_attributes) :
                          /\ needed_attributes[j] \notin kw
                          /\ \A h \in 1..(j - 1) : needed_attributes[h] \in kw
            IN  /\ phase' = "failed"
                /\ eos_dict' = [EmptyDict EXCEPT
                                  !.nui = IF miss > 1 THEN nui ELSE <<>>,
                                  !.beads = IF miss > 2 THEN beads ELSE <<>>]
                /\ last' = Call("__init__", <<>>, <<>>, kw, "raised",
                                MissingInputError, needed_attributes[miss],
                                FALSE, NoPair, <<>>)
                /\ UNCHANGED <<xi, alphakl>>
       ELSE LET d == InitDict(lib, IF "crosslibrary" \in kw THEN cross ELSE NoCross)
            IN  /\ phase' = "built"
                /\ eos_dict' = d
                /\ xi' = <<NaN>>
                /\ alphakl' = AlphaOf(d)
                /\ last' = Call("__init__", <<>>, <<>>, kw, "ok", "", "",
                                FALSE, NoPair, <<>>)
    /\ UNCHANGED <<batch, pc, wxi, wloc, rho, proc>>

\* A refresh that calls the mixing rules without crosslibrary=.
RefreshDictNoCross(d, bu, cu) ==
    LET lib == DictUpdate(d.beadlibrary, bu)
        cross == DictUpdate(d.crosslibrary, cu)
        out == cross_interaction_from_dict(d.beads, lib, NoCross)
    IN  calc_component_averaged_properties(
            [d EXCEPT !.beadlibrary = lib, !.crosslibrary = cross,
                      !.sigma_kl = out.sigma, !.epsilon_kl = out.epsilon,
                      !.lambda_kl = out.lambda])

\* Lines 691-699 of parameter_refresh: merge the updates, re-run the mixing
\* rules and the component averaging.
RefreshDict(d, bu, cu) ==
    LET lib == DictUpdate(d.beadlibrary, bu)
        cross == DictUpdate(d.crosslibrary, cu)
        out == cross_interaction_from_dict(d.beads, lib, cross)
    IN  calc_component_averaged_properties(
            [d EXCEPT !.beadlibrary = lib, !.crosslibrary = cross,
                      !.sigma_kl = out.sigma, !.epsilon_kl = out.epsilon,
                      !.lambda_kl = out.lambda])

\* Lines 701-702: with a cached composition the call reads the name xi, which
\* is neither a parameter nor a local of parameter_refresh nor a global.
RefreshTail(sx) ==
    IF ~(\E i \in 1..Len(sx) : sx[i] = NaN) THEN "NameError" ELSE ""

\* parameter_refresh(beadlibrary, crosslibrary)
parameter_refresh(bu, cu) ==
    /\ phase = "built"
    /\ eos_dict' = RefreshDict(eos_dict, bu, cu)
    /\ last' = IF RefreshTail(xi) = ""
               THEN Returned("parameter_refresh", <<>>, <<>>, FALSE, NoPair, <<>>)
               ELSE Raised("parameter_refresh", <<>>, <<>>, RefreshTail(xi), "xi", FALSE)
    /\ UNCHANGED <<phase, xi, alphakl, batch, pc, wxi, wloc, rho, proc>>

\* The operations that check the density, then the composition cache, then
\* evaluate their formula on the cached pair.
DensityOps ==
    {"reduced_density", "effective_packing_fraction", "dzetaeff_dzetax",
     "Ahard_sphere", "Afirst_order", "Asecond_order", "calc_g0HS", "calc_gHS",
     "calc_gSW", "Achain", "calc_gr_assoc"}

HardSphereOf(op, d, r) ==
    IF op \in {"Ahard_sphere", "Amonomer"}
    THEN Table([j \in 1..Len(r) |-> HardSphereClass(d, r[j])], Len(r))
    ELSE <<>>

\* The common shape of the density-taking operations.
DensityOp(op, r, x) ==
    /\ phase = "built"
    /\ IF check_density(r) # "ok"
       THEN /\ last' = Raised(op, r, x, "ValueError", check_density(r), FALSE)
            /\ UNCHANGED <<eos_dict, xi>>
       ELSE LET chk == check_composition_dependent_parameters(eos_dict, xi, x)
            IN  /\ eos_dict' = chk.d
                /\ xi' = chk.xi
                /\ last' = Returned(op, r, x, chk.recomputed, CachedPair(chk.d),
                                    HardSphereOf(op, chk.d, r))
    /\ UNCHANGED <<phase, alphakl, batch, pc, wxi, wloc, rho, proc>>

reduced_density(r, x) == DensityOp("reduced_density", r, x)
effective_packing_fraction(r, x) == DensityOp("effective_packing_fraction", r, x)
dzetaeff_dzetax(r, x) == DensityOp("dzetaeff_dzetax", r, x)
Ahard_sphere(r, x) == DensityOp("Ahard_sphere", r, x)
Afirst_order(r, x) == DensityOp("Afirst_order", r, x)
Asecond_order(r, x) == DensityOp("Asecond_order", r, x)
calc_g0HS(r, x) == DensityOp("calc_g0HS", r, x)
calc_gHS(r, x) == DensityOp("calc_gHS", r, x)
calc_gSW(r, x) == DensityOp("calc_gSW", r, x)

\* What gii[j, i, i], the value calc_gSW returns for density j and component
\* i, can be for np.log: positive, zero, or NaN (a negative value has the
\* logarithm NaN as well).
GiiValues == {"positive", "zero", "nan"}
GiiArrays(n) == [1..n -> [Comps -> GiiValues]]
WellBehaved(n) == [j \in 1..n |-> [i \in Comps |-> "positive"]]

\* np.log on the four kinds of value.
LogOf(g) ==
    CASE g = "positive" -> "number" [] g = "zero" -> "-inf" [] g = "nan" -> "NaN"
\* c * v for a finite c and a float v that is a number, an infinity or NaN.
Times(c, v) ==
    IF v = "NaN" THEN "NaN"
    ELSE IF v = "number" THEN "number"
    ELSE IF c = 0 THEN "NaN"
    ELSE IF (c > 0) = (v = "inf") THEN "inf" ELSE "-inf"
\* a - t on the same floats.
Minus(a, t) ==
    IF a = "NaN" \/ t = "NaN" THEN "NaN"
    ELSE IF t = "number" THEN a
    ELSE IF a = "number" THEN (IF t = "inf" THEN "-inf" ELSE "inf")
    ELSE IF a = t THEN "NaN" ELSE a

\* beadsum of component i: -1 + num_rings[i] + sum_k nui[i,k]*Vks[k]*Sk[k].
beadsum(d, i) ==
    -1 + d.num_rings[i] + SumOver([k \in BeadIx |-> d.nui[i][k] * d.Vks[k] * d.Sk[k]], BeadIx)

RECURSIVE ChainSum(_, _, _, _)
\* Achain[j] after the loop has run over the components 1..n:
\* Achain -= xi[i] * beadsum * np.log(gii[:, i, i]).
ChainSum(d, x, gj, n) ==
    IF n = 0 THEN "number"
    ELSE Minus(ChainSum(d, x, gj, n - 1), Times(x[n] * beadsum(d, n), LogOf(gj[n])))

\* A test that reports only an array that is NaN throughout.
AllNaN(values) == \A j \in 1..Len(values) : values[j] = "NaN"
\* np.any(np.isnan(Achain))
AnyNaN(values) == \E j \in 1..Len(values) : values[j] = "NaN"

\* Achain(rho, T, xi) when calc_gSW returns one of the arrays in G: the
\* density check, the composition cache inside calc_gSW, the loop, the test
\* for NaN with its logger.error, and the return of the array as computed.
AchainGiven(r, x, G) ==
    /\ phase = "built"
    /\ IF check_density(r) # "ok"
       THEN /\ last' = Raised("Achain", r, x, "ValueError", check_density(r), FALSE)
            /\ UNCHANGED <<eos_dict, xi>>
       ELSE LET chk == check_composition_dependent_parameters(eos_dict, xi, x)
                d == chk.d
                pair == CachedPair(d)
            IN  /\ eos_dict' = d
                /\ xi' = chk.xi
                /\ \E g \in G :
                     LET values == Table([j \in 1..Len(r) |-> ChainSum(d, x, g[j], ncomp)],
                                         Len(r))
                     IN  last' = Call("Achain", r, x, [gii |-> g], "ok", "",
                                      IF AnyNaN(values)
                                      THEN "Some Helmholtz values are NaN, check energy parameters."
                                      ELSE "",
                                      chk.recomputed, pair, values)
    /\ UNCHANGED <<phase, alphakl, batch, pc, wxi, wloc, rho, proc>>

Achain(r, x) == AchainGiven(r, x, {WellBehaved(Len(r))})
calc_gr_assoc(r, x) == DensityOp("calc_gr_assoc", r, x)

\* Afirst_order, line 354: the matrix xskl*alphakl that multiplies the density
\* and g0HS, read from the object's alphakl attribute.
a1kl_tmp(d, al) ==
    [k \in BeadIx |-> [l \in BeadIx |-> FracMul(d.xskl[k][l], FracOfInt(al[k][l]))]]
\* Asecond_order, line 401: epsilon_kl * alphakl * xskl.
tmp2(d, al) ==
    [k \in BeadIx |-> [l \in BeadIx |->
        FracMul(d.xskl[k][l], FracOfInt(d.epsilon_kl[k][l] * al[k][l]))]]
SumMatrix(m) ==
    FracSum([k \in BeadIx |-> FracSum([l \in BeadIx |-> m[k][l]], BeadIx)], BeadIx)
\* A1*T and A2*T^2 per unit of density in the limit of vanishing density,
\* where g0HS and KHS are one and the zetax term of line 403 is zero:
\* A1 = -(Cmol2seg^2 / T) * sum(rho*a1kl_tmp*g0HS),
\* A2 = (Cmol2seg / T^2) * sum(KHS*Cmol2seg*rho/2 * tmp2 * (g0HS + ...)).
A1Slope(d, al) == FracMul(FracOfInt(-(d.Cmol2seg * d.Cmol2seg)), SumMatrix(a1kl_tmp(d, al)))
A2Slope(d, al) == FracMul(<<d.Cmol2seg * d.Cmol2seg, 2>>, SumMatrix(tmp2(d, al)))

\* np.all(rho > self.density_max(xi, T)): true of an empty rho.
AllAboveMax(r, mx) == \A j \in 1..Len(r) : AboveMax(r[j], mx)

\* Amonomer(rho, T, xi): density_max (which checks the composition cache)
\* comes first, then the density check, then the three terms.
Amonomer(r, x) ==
    /\ phase = "built"
    /\ LET chk == check_composition_dependent_parameters(eos_dict, xi, x)
       IN  /\ eos_dict' = chk.d
           /\ xi' = chk.xi
           /\ last' =
                IF AllAboveMax(r, maxrho(chk.d))
                THEN Raised("Amonomer", r, x, "ValueError", "should not all be greater",
                            chk.recomputed)
                ELSE IF check_density(r) # "ok"
                THEN Raised("Amonomer", r, x, "ValueError", check_density(r),
                            chk.recomputed)
                ELSE Returned("Amonomer", r, x, chk.recomputed, CachedPair(chk.d),
                              HardSphereOf("Amonomer", chk.d, r))
    /\ UNCHANGED <<phase, alphakl, batch, pc, wxi, wloc, rho, proc>>

\* density_max(xi, T): checks the composition cache, takes no density.
density_max(x) ==
    /\ phase = "built"
    /\ LET chk == check_composition_dependent_parameters(eos_dict, xi, x)
       IN  /\ eos_dict' = chk.d
           /\ xi' = chk.xi
           /\ last' = Returned("density_max", <<>>, x, chk.recomputed,
                               CachedPair(chk.d), <<>>)
    /\ UNCHANGED <<phase, alphakl, batch, pc, wxi, wloc, rho, proc>>

\* The temperatures and site geometries handed to calc_Kijklab: the cutoff
\* rc_klab per bead pair (symmetric or not) and rd_klab (absent by default).
Temperatures == {1, 2}
SymmetricCutoff == << <<1, 2>>, <<2, 3>> >>
SkewCutoff == << <<1, 2>>, <<3, 3>> >>
NoCutoff == <<>>
Geometries ==
    { [rc |-> SymmetricCutoff, rd |-> NoCutoff], [rc |-> SkewCutoff, rd |-> NoCutoff],
      [rc |-> SymmetricCutoff, rd |-> SymmetricCutoff] }

\* A mean taken over the row of the first component alone.
dij_bar_one_row(d, i, j) == Frac(SumSeq(d.sigma_ij[i]), ncomp)
\* dij_bar[i,j] = np.mean([sigma_ij[i], sigma_ij[j]]): sigma_ij[i] is row i,
\* so the mean runs over the 2*ncomp entries of rows i and j.
dij_bar(d, i, j) == Frac(SumSeq(d.sigma_ij[i]) + SumSeq(d.sigma_ij[j]), 2 * ncomp)

\* Aassoc.calc_bonding_volume(rc_klab, dij_bar, rd_klab, reduction_ratio):
\* the volume of component pair (i,j) and site pair (k,l) is a function of
\* rc_klab[k,l], rd_klab[k,l] and dij_bar[i,j]; it is kept as that triple.
calc_bonding_volume(geo, dbar) ==
    Table([i \in Comps |-> Table([j \in Comps |->
        Table([k \in BeadIx |-> Table([l \in BeadIx |->
            [rc |-> geo.rc[k][l],
             rd |-> IF geo.rd = NoCutoff THEN None ELSE geo.rd[k][l],
             dij |-> dbar[i][j]]], nbeads)], nbeads)], ncomp)], ncomp)

\* calc_Kijklab(T, rc_klab, rd_klab): reads sigma_ij, checks no density and
\* no composition, stores nothing.
Kijklab(d, T, geo) ==
    calc_bonding_volume(geo,
        Table([i \in Comps |-> Table([j \in Comps |-> dij_bar(d, i, j)], ncomp)], ncomp))

calc_Kijklab(T, geo) ==
    /\ phase = "built"
    /\ last' = Call("calc_Kijklab", <<>>, <<>>, [T |-> T, geo |-> geo], "ok", "", "",
                    FALSE, NoPair, Kijklab(eos_dict, T, geo))
    /\ UNCHANGED <<phase, eos_dict, xi, alphakl, batch, pc, wxi, wloc, rho, proc>>

\* One evaluation call with the density array r and the composition x.
Evaluation(r, x) ==
    \/ reduced_density(r, x)
    \/ effective_packing_fraction(r, x)
    \/ dzetaeff_dzetax(r, x)
    \/ Ahard_sphere(r, x)
    \/ Afirst_order(r, x)
    \/ Asecond_order(r, x)
    \/ Amonomer(r, x)
    \/ calc_g0HS(r, x)
    \/ calc_gHS(r, x)
    \/ calc_gSW(r, x)
    \/ Achain(r, x)
    \/ calc_gr_assoc(r, x)
    \/ density_max(x)

\* The floats a density array may hold, and the arrays up to MaxLen of them.
RhoValues == {NaN, -1} \cup 0..MaxRho
\* The checks and the formulas act entry by entry, so the arrays are taken
\* up to the order of their entries (NaN first).
RhoArrays ==
    { r \in UNION { [1..n -> RhoValues] : n \in 0..MaxLen } :
        \A j \in 1..(Len(r) - 1) : r[j] <= r[j + 1] }
\* The densities of the calls of a fitting run.
RhoFit == { <<1>>, <<1, 3>> }

\* No batch runs and no worker shares the object.
NoBatch == [type |-> "none", sys |-> <<>>, l_c |-> 0, state |-> "idle", T_list |-> <<>>,
            points |-> <<>>, opts |-> {}, results |-> <<>>, exc |-> "", msg |-> ""]
\* No process has been started: the object is used from a Python session.
NoProcess == [entry |-> "none", step |-> "none"]
Workers == 1..NWorkers
IdleWorkers ==
    /\ pc = [w \in Workers |-> "idle"]
    /\ wxi = [w \in Workers |-> <<>>]
    /\ wloc = [w \in Workers |-> [computed |-> NoPair, Cmol2seg |-> None,
                                 xskl |-> NoMatrix]]

\* A constructor has not run yet; the caller holds the density array r.
NewObject(r) ==
    /\ phase = "new"
    /\ eos_dict = EmptyDict
    /\ xi = <<>>
    /\ alphakl = NoMatrix
    /\ last = NoCall
    /\ batch = NoBatch
    /\ proc = NoProcess
    /\ IdleWorkers
    /\ rho = r

\* The object as __init__ leaves it.
BuiltObject(lib, cross, r) ==
    /\ phase = "built"
    /\ eos_dict = InitDict(lib, cross)
    /\ xi = <<NaN>>
    /\ alphakl = AlphaOf(InitDict(lib, cross))
    /\ last = NoCall
    /\ batch = NoBatch
    /\ proc = NoProcess
    /\ IdleWorkers
    /\ rho = r

Init == \E r \in RhoFit : NewObject(r)

\* The object's life under a fitting driver: construction, evaluations,
\* parameter refreshes.
Next ==
    \/ /\ phase = "new"
       /\ \E kw \in SUBSET KwargKeys, lib \in Libraries, cross \in CrossLibraries :
             Construct(kw, lib, cross)
    \/ \E bu \in BeadUpdates, cu \in CrossUpdates : parameter_refresh(bu, cu)
    \/ \E x \in Compositions : Evaluation(rho, x)
    \/ \E T \in Temperatures, geo \in Geometries : calc_Kijklab(T, geo)

Spec == Init /\ [][Next]_vars

\* The object's life under a solver: a constructed object, then evaluations
\* on any density array.
InitEval == \E lib \in Libraries, r \in RhoArrays : BuiltObject(lib, NoCross, r)

NextEval == \E x \in Compositions : Evaluation(rho, x)

SpecEval == InitEval /\ [][NextEval]_vars

\* The object's life under a fit of the well depths: a constructed object,
\* refreshes that switch the wells off or on, evaluations in between.
InitWell == \E lib \in Libraries, r \in RhoFit : BuiltObject(lib, NoCross, r)

NextWell ==
    \/ \E bu \in WellUpdates : parameter_refresh(bu, NoCross)
    \/ \E x \in Compositions : Evaluation(rho, x)

SpecWell == InitWell /\ [][NextWell]_vars

\* The chain term on a constructed object, over everything calc_gSW can
\* return.
NextChain == \E x \in Compositions : AchainGiven(rho, x, GiiArrays(Len(rho)))

SpecChain == InitWell /\ [][NextChain]_vars

-----------------------------------------------------------------------------
(* calc_types: the batch calculation types and their per-point wrappers *)

CalcTypes ==
    {"phase_xiT", "phase_yiT", "flash", "sat_props", "liquid_properties",
     "vapor_properties", "solubility_parameter", "check_eos"}

\* What the solver called for one evaluation point does: it converges, it
\* returns NaN (no solution found), or it raises.  xi: the point's
\* composition (xi or yi), one number per component.
SolverOutcomes == {"converges", "nan", "raises"}
Points == [solver : SolverOutcomes, xi : {<<1, 0>>, <<1, 1>>}]
PointLists == UNION { [1..n -> Points] : n \in 0..MaxPoints }

\* sys_dict as the calculation types read it: how many temperatures Tlist
\* holds, how many entries the list paired with it holds (xilist, yilist, or
\* Plist for flash), how many pressure guesses Pguess holds (0: the key is
\* not in sys_dict, for each of the three), whether rhodict, mpObj and
\* 'mole fraction options' are given, and which of dT and tol are given.
\* Here: both lists given, none of the last three keys.
SysDicts ==
    [Tlist : 1..MaxPoints, xilist : 1..MaxPoints, Pguess : 0..MaxPoints,
     rhodict : BOOLEAN, mpObj : BOOLEAN, moleopts : {FALSE}, options : {{}}]
\* Here: lists that may be missing, and the optional keys.
KeyedSysDicts ==
    [Tlist : 0..MaxPoints, xilist : 0..MaxPoints, Pguess : {0},
     rhodict : BOOLEAN, mpObj : {FALSE}, moleopts : BOOLEAN,
     options : SUBSET {"dT", "tol"}]
\* len(eos.eos_dict['nui']) of the object handed to a calculation type.
EosSizes == {1, 2, 3}
\* The entries of Tlist are told apart by their position; a list of n
\* copies of the first one.
Positions(n) == [j \in 1..n |-> j]
Copies(n) == [j \in 1..n |-> 1]

\* A point's record in the output: which routine ran, the value (a number or
\* NaN) and the liquid-side flag (None where the record carries no flag).
Record(routine, value, flag) == [routine |-> routine, value |-> value, flag |-> flag]
\* The record of the except branch: [np.nan, np.nan, 3, 3, np.nan].
Sentinel(routine) == Record(routine, "NaN", 3)
\* A wrapper either returns a record or lets the solver's exception escape.
Escapes == [routine |-> "", value |-> "raised", flag |-> None]

\* The record of the two phase wrappers: besides the pressure (value) and
\* flagl (flag), the other phase's composition, flagv, obj, and the option
\* keys the routine was called with.
PhaseRecord(routine, value, other, flagv, flagl, obj, passed) ==
    [routine |-> routine, value |-> value, flag |-> flagl, other |-> other,
     flagv |-> flagv, obj |-> obj, passed |-> passed]
PhaseSentinel(routine, passed) ==
    PhaseRecord(routine, "NaN", "NaN", 3, 3, "NaN", passed)

\* xi[xi != 0.]: the entries that compare unequal to zero (NaN does).
Nonzero(x) == {i \in 1..Len(x) : ~FloatEq(x[i], 0)}
\* A test that takes any composition with a nonzero entry for a pure one.
IsPureAnyNonzero(x) == Cardinality(Nonzero(x)) >= 1
\* len(xi[xi != 0.]) == 1
IsPure(x) == Cardinality(Nonzero(x)) = 1

\* The body shared by the two phase wrappers: a fifth argument is stored as
\* opts["Pguess"]; inside the try, a pure composition goes to calc_Psat with
\* rhodict alone, any other to the mixture solver with all of opts.
PhaseWrapper(mixture, args) ==
    LET opts == args.opts \cup (IF args.Pguess THEN {"Pguess"} ELSE {})
        routine == IF IsPure(args.xi) THEN "calc_Psat" ELSE mixture
        passed == IF IsPure(args.xi) THEN opts \cap {"rhodict"} ELSE opts
        value == IF args.solver = "nan" THEN "NaN" ELSE "number"
    IN  IF args.solver = "raises" THEN PhaseSentinel(routine, passed)
        ELSE IF IsPure(args.xi)
        THEN PhaseRecord(routine, value, args.xi, 0, 1, 0, passed)
        ELSE PhaseRecord(routine, value, IF args.solver = "nan" THEN "NaN" ELSE "solved",
                         IF args.solver = "nan" THEN 3 ELSE 0,
                         IF args.solver = "nan" THEN 3 ELSE 0,
                         IF args.solver = "nan" THEN "NaN" ELSE "number", passed)

\* _phase_xiT_wrapper: a try around calc_Psat (pure) or calc_xT_phase.
phase_xiT_wrapper(pt) == PhaseWrapper("calc_xT_phase", pt)

\* _phase_yiT_wrapper: a try around calc_Psat (pure) or calc_yT_phase.
phase_yiT_wrapper(pt) == PhaseWrapper("calc_yT_phase", pt)

\* _flash_wrapper: a try around calc_flash.
flash_wrapper(pt) ==
    IF pt.solver = "raises" THEN Sentinel("calc_flash")
    ELSE Record("calc_flash", IF pt.solver = "nan" THEN "NaN" ELSE "number",
                IF pt.solver = "nan" THEN 3 ELSE 0)

\* _sat_props_wrapper: calc_Psat is called outside any try; a NaN Psat is
\* reported as three NaN, the record carries no flag.
sat_props_wrapper(pt) ==
    IF pt.solver = "raises" THEN Escapes
    ELSE Record("calc_Psat", IF pt.solver = "nan" THEN "NaN" ELSE "number", None)

\* _liquid_properties_wrapper: calc_rhol is called outside any try.
liquid_properties_wrapper(pt) ==
    IF pt.solver = "raises" THEN Escapes
    ELSE Record("calc_rhol", IF pt.solver = "nan" THEN "NaN" ELSE "number",
                IF pt.solver = "nan" THEN 3 ELSE 1)

\* _vapor_properties_wrapper: calc_rhov is called outside any try.
vapor_properties_wrapper(pt) ==
    IF pt.solver = "raises" THEN Escapes
    ELSE Record("calc_rhov", IF pt.solver = "nan" THEN "NaN" ELSE "number",
                IF pt.solver = "nan" THEN 3 ELSE 1)

\* _solubility_parameter_wrapper: calc_rhol is called outside any try.
solubility_parameter_wrapper(pt) ==
    IF pt.solver = "raises" THEN Escapes
    ELSE Record("calc_rhol", IF pt.solver = "nan" THEN "NaN" ELSE "number",
                IF pt.solver = "nan" THEN 3 ELSE 1)

\* The name each calculation type hands to pool_job / serial_job, and whether
\* the module defines it: phase_yiT names __phase_yiT_wrapper, the module
\* defines _phase_yiT_wrapper.
DispatchedName(type) ==
    IF type = "phase_yiT" THEN "__phase_yiT_wrapper"
    ELSE IF type = "phase_xiT" THEN "_phase_xiT_wrapper"
    ELSE IF type = "flash" THEN "_flash_wrapper"
    ELSE IF type = "sat_props" THEN "_sat_props_wrapper"
    ELSE IF type = "liquid_properties" THEN "_liquid_properties_wrapper"
    ELSE IF type = "vapor_properties" THEN "_vapor_properties_wrapper"
    ELSE "_solubility_parameter_wrapper"   \* solubility_parameter and check_eos

ModuleFunctions ==
    {"_phase_xiT_wrapper", "_phase_yiT_wrapper", "_flash_wrapper", "_sat_props_wrapper",
     "_liquid_properties_wrapper", "_vapor_properties_wrapper",
     "_solubility_parameter_wrapper"}

Wrapper(name, pt) ==
    CASE name = "_phase_xiT_wrapper" -> phase_xiT_wrapper(pt)
      [] name = "_phase_yiT_wrapper" -> phase_yiT_wrapper(pt)
      [] name = "_flash_wrapper" -> flash_wrapper(pt)
      [] name = "_sat_props_wrapper" -> sat_props_wrapper(pt)
      [] name = "_liquid_properties_wrapper" -> liquid_properties_wrapper(pt)
      [] name = "_vapor_properties_wrapper" -> vapor_properties_wrapper(pt)
      [] name = "_solubility_parameter_wrapper" -> solubility_parameter_wrapper(pt)

SizeMessage == "The number of provided temperatures and mole fraction sets are different"
EntryOk(T_list) == [exc |-> "", msg |-> "", T_list |-> T_list]
EntryRaises(exc, msg) == [exc |-> exc, msg |-> msg, T_list |-> <<>>]

\* The lists a calculation type finds in sys_dict.  phase_xiT, phase_yiT,
\* liquid_properties and vapor_properties raise ValueError only when the
\* names T_list and xi_list (yi_list) are both unassigned; with one of them
\* unassigned the size check that follows reads an unassigned local.  The
\* other types raise ValueError without Tlist.
CheckRequired(type, sys) ==
    IF type \in {"phase_xiT", "phase_yiT", "liquid_properties", "vapor_properties"}
    THEN IF sys.Tlist = 0 /\ sys.xilist = 0
         THEN EntryRaises("ValueError", "Tlist or xilist are not specified")
         ELSE IF sys.Tlist = 0 THEN EntryRaises("UnboundLocalError", "T_list")
         ELSE IF sys.xilist = 0 THEN EntryRaises("UnboundLocalError", "xi_list")
         ELSE EntryOk(<<>>)
    ELSE IF sys.Tlist = 0 THEN EntryRaises("ValueError", "Tlist is not specified")
         ELSE EntryOk(<<>>)

\* The other types fill a missing second list (Plist for flash, xilist for
\* the rest) with one default entry per temperature.
Provided(sys) == [sys EXCEPT !.xilist = IF @ = 0 THEN sys.Tlist ELSE @]

\* The size check of phase_xiT, phase_yiT, flash, sat_props, liquid_properties
\* and vapor_properties: one temperature is repeated for every entry of the
\* other list, any other difference in length raises.
CheckSizes(sys) ==
    IF sys.Tlist = sys.xilist THEN EntryOk(Positions(sys.Tlist))
    ELSE IF sys.Tlist = 1 THEN EntryOk(Copies(sys.xilist))
    ELSE EntryRaises("ValueError", SizeMessage)

\* The size check of solubility_parameter and check_eos: the else belongs to
\* the second if, so after one temperature was repeated the test
\* len(xi_list) == 1 decides alone whether the call raises.
CheckSizesBoth(sys) ==
    IF sys.Tlist = sys.xilist THEN EntryOk(Positions(sys.Tlist))
    ELSE LET T_list == IF sys.Tlist = 1 THEN Copies(sys.xilist)
                       ELSE Positions(sys.Tlist)
         IN  IF sys.xilist = 1 THEN EntryOk(T_list)
             ELSE EntryRaises("ValueError", SizeMessage)

\* The Pguess block of phase_xiT and phase_yiT: when the number of guesses
\* differs from the number of temperatures, the test reads numpy.ndarray, and
\* the module imports numpy only under the name np.
CheckPguess(sys, entry) ==
    IF entry.exc # "" THEN entry
    ELSE IF sys.Pguess > 0 /\ Len(entry.T_list) # sys.Pguess
    THEN EntryRaises("NameError", "numpy")
    ELSE entry

\* flash after its size check: rhodict is stored into opts before opts is
\* assigned, then only binary systems pass.
CheckFlash(sys, l_c, entry) ==
    IF entry.exc # "" THEN entry
    ELSE IF sys.rhodict THEN EntryRaises("UnboundLocalError", "opts")
    ELSE IF l_c # 2
    THEN EntryRaises("ValueError", "Only binary systems are currently supported")
    ELSE entry

\* solubility_parameter and check_eos, lines 830-835 and 958-963: the loop
\* over sys_dict.items() deletes the key it has just copied, and the next
\* step of the iteration finds the dictionary changed in size.
CheckOptions(sys, entry) ==
    IF entry.exc # "" THEN entry
    ELSE IF sys.options # {}
    THEN EntryRaises("RuntimeError", "dictionary changed size during iteration")
    ELSE entry

\* The keys of the opts dictionary that goes into every input.  In flash opts
\* is the 'mole fraction options' dictionary itself.
Options(type, sys) ==
    CASE type \in {"phase_xiT", "phase_yiT"} ->
            (IF sys.rhodict THEN {"rhodict"} ELSE {})
            \cup (IF sys.moleopts THEN {"zi_opts"} ELSE {})
      [] type = "flash" ->
            IF sys.moleopts THEN {"entries of mole fraction options"} ELSE {}
      [] type \in {"sat_props", "liquid_properties", "vapor_properties"} ->
            IF sys.rhodict THEN {"rhodict"} ELSE {}
      [] type \in {"solubility_parameter", "check_eos"} -> sys.options

\* The wrapper's name is looked up when the job call is evaluated.
CheckDispatch(type, entry) ==
    IF entry.exc # "" THEN entry
    ELSE IF DispatchedName(type) \notin ModuleFunctions
    THEN EntryRaises("NameError", DispatchedName(type))
    ELSE entry

\* A calculation type from its entry up to the job call.
Entry(type, sys, l_c) ==
    IF CheckRequired(type, sys).exc # "" THEN CheckRequired(type, sys)
    ELSE LET given == Provided(sys)
         IN  CheckDispatch(type,
                CASE type \in {"phase_xiT", "phase_yiT"} ->
                        CheckPguess(given, CheckSizes(given))
                  [] type = "flash" -> CheckFlash(given, l_c, CheckSizes(given))
                  [] type \in {"sat_props", "liquid_properties", "vapor_properties"} ->
                        CheckSizes(given)
                  [] type \in {"solubility_parameter", "check_eos"} ->
                        CheckOptions(given, CheckSizesBoth(given)))

\* A calculation type is called with sys_dict on an object of l_c components.
\* It raises, or builds one input per temperature and hands the inputs with
\* its wrapper to the job; pts says what the solver does at each input.
StartBatch(type, sys, l_c, pts) ==
    /\ phase = "built"
    /\ batch.state = "idle"
    /\ LET entry == Entry(type, sys, l_c)
       IN  /\ Len(pts) = Len(entry.T_list)
           /\ batch' = [type |-> type, sys |-> sys, l_c |-> l_c,
                        state |-> IF entry.exc = "" THEN "running" ELSE "aborted",
                        T_list |-> entry.T_list, points |-> pts,
                        opts |-> IF entry.exc = "" THEN Options(type, sys) ELSE {},
                        results |-> <<>>, exc |-> entry.exc, msg |-> entry.msg]
    /\ UNCHANGED <<phase, eos_dict, xi, alphakl, last, pc, wxi, wloc, rho, proc>>

\* One element of inputs: the point, the opts dictionary, and for the phase
\* types Pguess[i] as a fifth element when Pguess was given.
Input(pt, opts, guess) ==
    [solver |-> pt.solver, xi |-> pt.xi, opts |-> opts, Pguess |-> guess]

\* The job applies the wrapper to the next input; an exception that escapes
\* the wrapper ends the job and the calculation type; after the last input
\* the calculation type returns the lists of records.
RunPoint ==
    /\ batch.state = "running"
    /\ LET i == Len(batch.results) + 1
           r == Wrapper(DispatchedName(batch.type),
                        Input(batch.points[i], batch.opts, batch.sys.Pguess > 0))
       IN  batch' = IF r = Escapes
                    THEN [batch EXCEPT !.state = "aborted", !.exc = "solver exception",
                                       !.msg = DispatchedName(batch.type)]
                    ELSE [batch EXCEPT !.results = Append(@, r),
                                       !.state = IF i = Len(batch.points)
                                                 THEN "done" ELSE "running"]
    /\ UNCHANGED <<phase, eos_dict, xi, alphakl, last, pc, wxi, wloc, rho, proc>>

InitBatch == \E lib \in Libraries : BuiltObject(lib, NoCross, <<>>)

NextBatch ==
    \/ /\ batch.state = "idle"
       /\ \E type \in CalcTypes, sys \in SysDicts, l_c \in EosSizes, pts \in PointLists :
             StartBatch(type, sys, l_c, pts)
    \/ RunPoint

SpecBatch == InitBatch /\ [][NextBatch]_vars

\* The argument tuples a phase wrapper can be called with.
WrapperInputs ==
    [solver : SolverOutcomes,
     xi : {<<0, 0>>, <<1, 0>>, <<0, 1>>, <<1, 1>>, <<NaN, 0>>, <<NaN, 1>>},
     opts : SUBSET {"rhodict", "zi_opts", "meth"}, Pguess : BOOLEAN]

\* One call of a wrapper of the module on one argument tuple.
CallWrapper(name, args) ==
    /\ phase = "built"
    /\ batch.state = "idle"
    /\ name \in ModuleFunctions
    /\ batch' = [NoBatch EXCEPT !.type = name, !.state = "done", !.points = <<args>>,
                                !.opts = args.opts, !.results = <<Wrapper(name, args)>>]
    /\ UNCHANGED <<phase, eos_dict, xi, alphakl, last, pc, wxi, wloc, rho, proc>>

NextWrapper ==
    \E name \in {"_phase_xiT_wrapper", "_phase_yiT_wrapper"}, args \in WrapperInputs :
        CallWrapper(name, args)

SpecWrapper == InitBatch /\ [][NextWrapper]_vars

\* The calculation types called with input files that leave lists out or
\* carry the optional keys.
NextKeys ==
    \/ /\ batch.state = "idle"
       /\ \E type \in CalcTypes, sys \in KeyedSysDicts, l_c \in EosSizes,
             pts \in PointLists :
             StartBatch(type, sys, l_c, pts)
    \/ RunPoint

SpecKeys == InitBatch /\ [][NextKeys]_vars

-----------------------------------------------------------------------------
(* Workers evaluating against one shared object *)

\* The stores with self.xi written ahead of the pair.
StoreOrderXiFirst == <<"storexi", "storeCmol2seg", "storexskl">>

\* The statements of _check_composition_dependent_parameters that store, in
\* program order (lines 750-751).
StoreOrder == <<"storeCmol2seg", "storexskl", "storexi">>

\* The position after the store s, the reads of the formula (lines 190-194)
\* following the last store.
AfterStore(s) ==
    LET j == CHOOSE h \in 1..Len(StoreOrder) : StoreOrder[h] = s
    IN  IF j = Len(StoreOrder) THEN "readCmol2seg" ELSE StoreOrder[j + 1]

\* A worker enters reduced_density(rho, x).
Begin(w, x) ==
    /\ pc[w] = "idle"
    /\ pc' = [pc EXCEPT ![w] = "check"]
    /\ wxi' = [wxi EXCEPT ![w] = x]
    /\ UNCHANGED <<phase, eos_dict, xi, alphakl, last, batch, wloc, rho, proc>>

\* Line 749, and the right-hand side of line 750 when the test fails.
Check(w) ==
    /\ pc[w] = "check"
    /\ IF ~XiAllEqual(xi, wxi[w])
       THEN /\ wloc' = [wloc EXCEPT ![w].computed =
                          calc_composition_dependent_variables(
                              wxi[w], eos_dict.nui, eos_dict.beadlibrary, eos_dict.beads)]
            /\ pc' = [pc EXCEPT ![w] = StoreOrder[1]]
       ELSE /\ pc' = [pc EXCEPT ![w] = "readCmol2seg"]
            /\ UNCHANGED wloc
    /\ UNCHANGED <<phase, eos_dict, xi, alphakl, last, batch, wxi, rho, proc>>

\* One store of lines 750-751.
Store(w) ==
    /\ pc[w] \in {StoreOrder[j] : j \in 1..Len(StoreOrder)}
    /\ eos_dict' = IF pc[w] = "storeCmol2seg"
                   THEN [eos_dict EXCEPT !.Cmol2seg = wloc[w].computed.Cmol2seg]
                   ELSE IF pc[w] = "storexskl"
                   THEN [eos_dict EXCEPT !.xskl = wloc[w].computed.xskl]
                   ELSE eos_dict
    /\ xi' = IF pc[w] = "storexi" THEN wxi[w] ELSE xi
    /\ pc' = [pc EXCEPT ![w] = AfterStore(pc[w])]
    /\ UNCHANGED <<phase, alphakl, last, batch, wxi, wloc, rho, proc>>

\* Line 190 reads eos_dict['Cmol2seg'], line 194 reads eos_dict['xskl'].
Read(w) ==
    /\ pc[w] \in {"readCmol2seg", "readxskl"}
    /\ IF pc[w] = "readCmol2seg"
       THEN /\ wloc' = [wloc EXCEPT ![w].Cmol2seg = eos_dict.Cmol2seg]
            /\ pc' = [pc EXCEPT ![w] = "readxskl"]
       ELSE /\ wloc' = [wloc EXCEPT ![w].xskl = eos_dict.xskl]
            /\ pc' = [pc EXCEPT ![w] = "done"]
    /\ UNCHANGED <<phase, eos_dict, xi, alphakl, last, batch, wxi, rho, proc>>

\* The shared object before the workers start: as constructed, or after a
\* serial evaluation of some composition.
InitShared ==
    \E lib \in Libraries, x0 \in Compositions \cup {<<NaN>>} :
        LET d == InitDict(lib, NoCross)
            chk == check_composition_dependent_parameters(d, <<NaN>>, x0)
        IN  /\ phase = "built"
            /\ eos_dict = IF x0 = <<NaN>> THEN d ELSE chk.d
            /\ xi = x0
            /\ alphakl = AlphaOf(d)
            /\ last = NoCall
            /\ batch = NoBatch
            /\ proc = NoProcess
            /\ IdleWorkers
            /\ rho = <<1>>

NextShared ==
    \E w \in Workers :
        \/ \E x \in Compositions : Begin(w, x)
        \/ Check(w)
        \/ Store(w)
        \/ Read(w)

SpecShared == InitShared /\ [][NextShared]_vars

-----------------------------------------------------------------------------
(* __main__ and main: a despasito process from its start to its calculation *)

\* The command lines: -i (empty: not given), -q, -v repeated, --jit.
CommandLines == [input : {"", "input.json"}, quiet : BOOLEAN, verbose : 0..3, jit : BOOLEAN]
\* The keys of the thermo dictionary that the input file yields.
ThermoOptions == { {"calculation_type"}, {"calculation_type", "opt_params"} }
\* def run(filename="input.json")
run_parameters == {"filename"}

\* A process before its first statement: started from the shell
\* (python -m despasito ...), or a session that imports run and calls it.
StartedProcess(entry, args, file) ==
    [entry |-> entry, args |-> args, file |-> file, step |-> "start", level |-> 0,
     handlers |-> {}, kwargs |-> {}, filename |-> "", exc |-> "",
     thermo_dict |-> {}, eos |-> "", ran |-> <<>>]

\* __main__ lines 19-22: the count of -v becomes a logging level.
VerboseLevel(v) == IF v = 0 THEN 0 ELSE IF v < 3 THEN (3 - v) * 10 ELSE 10

ParseArgs ==
    /\ proc.entry = "shell" /\ proc.step = "start"
    /\ proc' = [proc EXCEPT !.level = VerboseLevel(proc.args.verbose), !.step = "parsed"]
    /\ UNCHANGED <<phase, eos_dict, xi, alphakl, last, batch, pc, wxi, wloc, rho>>

\* __main__ lines 31-45: the log file always, the console unless -q.
SetupLogging ==
    /\ proc.step = "parsed"
    /\ proc' = [proc EXCEPT !.handlers = IF proc.args.quiet THEN {"file"}
                                         ELSE {"file", "console"},
                            !.step = "logging"]
    /\ UNCHANGED <<phase, eos_dict, xi, alphakl, last, batch, pc, wxi, wloc, rho>>

\* The call run(**kwargs): a keyword that run does not declare is a TypeError
\* raised before the first statement of run.
EnterRun(p, kwargs) ==
    IF kwargs \subseteq run_parameters
    THEN [p EXCEPT !.kwargs = kwargs, !.step = "run",
                   !.filename = IF "filename" \in kwargs THEN p.args.input
                                ELSE "input.json"]
    ELSE [p EXCEPT !.kwargs = kwargs, !.step = "failed", !.exc = "TypeError"]

\* __main__ lines 57-66: filename when -i was given, then threads, path and
\* jit are added, then run(**kwargs).
CallRun ==
    /\ proc.step = "logging"
    /\ proc' = EnterRun(proc, (IF proc.args.input # "" THEN {"filename"} ELSE {})
                              \cup {"threads", "path", "jit"})
    /\ UNCHANGED <<phase, eos_dict, xi, alphakl, last, batch, pc, wxi, wloc, rho>>

\* A session calls run(filename) or run().
ImportRun ==
    /\ proc.entry = "import" /\ proc.step = "start"
    /\ proc' = EnterRun(proc, IF proc.args.input # "" THEN {"filename"} ELSE {})
    /\ UNCHANGED <<phase, eos_dict, xi, alphakl, last, batch, pc, wxi, wloc, rho>>

\* main.py line 25: the input file is read into the two dictionaries.
ExtractCalcData ==
    /\ proc.step = "run"
    /\ proc' = [proc EXCEPT !.thermo_dict = proc.file, !.step = "input read"]
    /\ UNCHANGED <<phase, eos_dict, xi, alphakl, last, batch, pc, wxi, wloc, rho>>

\* main.py lines 30-35.
CreateEos ==
    /\ proc.step = "input read"
    /\ proc' = [proc EXCEPT !.eos = "saft.gamma_mie", !.step = "eos created"]
    /\ UNCHANGED <<phase, eos_dict, xi, alphakl, last, batch, pc, wxi, wloc, rho>>

\* main.py lines 38-42.
Fit ==
    /\ proc.step = "eos created" /\ "opt_params" \in proc.thermo_dict
    /\ proc' = [proc EXCEPT !.ran = Append(@, "fit"), !.step = "done"]
    /\ UNCHANGED <<phase, eos_dict, xi, alphakl, last, batch, pc, wxi, wloc, rho>>

\* main.py lines 43-47.
Thermo ==
    /\ proc.step = "eos created" /\ "opt_params" \notin proc.thermo_dict
    /\ proc' = [proc EXCEPT !.ran = Append(@, "thermo"), !.step = "done"]
    /\ UNCHANGED <<phase, eos_dict, xi, alphakl, last, batch, pc, wxi, wloc, rho>>

InitMain ==
    /\ phase = "new" /\ eos_dict = EmptyDict /\ xi = <<>> /\ alphakl = NoMatrix
    /\ last = NoCall /\ batch = NoBatch /\ IdleWorkers /\ rho = <<>>
    /\ \E args \in CommandLines, file \in ThermoOptions :
          \/ proc = StartedProcess("shell", args, file)
          \/ /\ ~args.quiet /\ args.verbose = 0 /\ ~args.jit
             /\ proc = StartedProcess("import", args, file)

NextMain ==
    \/ ParseArgs
    \/ SetupLogging
    \/ CallRun
    \/ ImportRun
    \/ ExtractCalcData
    \/ CreateEos
    \/ Fit
    \/ Thermo

SpecMain == InitMain /\ [][NextMain]_vars

-----------------------------------------------------------------------------
(* The claims about the object's life: construction, refresh, evaluation *)

\* The pair stb.calc_composition_dependent_variables gives for x on the
\* object's current nui, beadlibrary and beads.
PairOf(x) ==
    calc_composition_dependent_variables(x, eos_dict.nui, eos_dict.beadlibrary,
                                         eos_dict.beads)
\* density_max(x, T) of the object, whatever its cache holds.
DensityMaxFor(x) ==
    maxrho([eos_dict EXCEPT !.Cmol2seg = PairOf(x).Cmol2seg, !.xskl = PairOf(x).xskl])
\* A density input with one of the three defects.
Defective(r) == Len(r) = 0 \/ \E j \in 1..Len(r) : r[j] = NaN \/ r[j] < 0
DensityMessages == {"NaN was given", "No value of density", "cannot be negative"}
DerivedMatrices(d) ==
    <<d.sigma_kl, d.epsilon_kl, d.lambda_kl, d.sigma_ij, d.epsilon_ij, d.lambda_ij>>

\* C1 as stated: every call of parameter_refresh completes normally, also
\* after evaluations have set the cached composition xi.
C1_RefreshCompletes == last.op = "parameter_refresh" => last.outcome = "ok"

\* C2: in any sequence of evaluation calls, the cached pair a call reads is the
\* pair computed from that call's own xi, and the call recomputes the cache
\* exactly when its xi differs from the last-seen xi.
C2_CacheFollowsXi ==
    [][ (last'.op # "none" /\ last'.outcome = "ok")
          => /\ last'.used = PairOf(last'.x)
             /\ last'.used = CachedPair(eos_dict')
             /\ xi' = last'.x
             /\ last'.recomputed <=> ~(\A i \in 1..Len(last'.x) :
                                         FloatEq(IF Len(xi) = 1 THEN xi[1] ELSE xi[i],
                                                 last'.x[i])) ]_vars

\* C2's case: a call that found its xi cached and reused the pair.
C2_Witness ==
    /\ last.op \in DensityOps /\ last.outcome = "ok" /\ ~last.recomputed
    /\ xi = last.x /\ last.used = PairOf(last.x) /\ last.used # NoPair

\* C3 as stated: in every state reached by construction and parameter_refresh
\* calls, alphakl is epsilon_kl * sigma_kl^3 * (lambda_kl^3 - 1) (in units of
\* 2*pi/3) of the current matrices.
C3_AlphaCurrent == phase = "built" => alphakl = AlphaOf(eos_dict)

\* C4 as stated: Amonomer raises whenever any density is at or above
\* density_max(xi, T), and returns only when every density is strictly below.
C4_AnyAboveRaises ==
    last.op = "Amonomer" =>
        /\ (\E j \in 1..Len(last.rho) :
               AtOrAboveMax(last.rho[j], DensityMaxFor(last.x))) => last.outcome = "raised"
        /\ last.outcome = "ok" =>
               \A j \in 1..Len(last.rho) :
                   ~AtOrAboveMax(last.rho[j], DensityMaxFor(last.x))

\* C5 as stated: Ahard_sphere called with a density at or above
\* density_max(xi, T) raises; it never returns a value for such a density.
C5_HardSphereGuarded ==
    (/\ last.op = "Ahard_sphere"
     /\ \E j \in 1..Len(last.rho) : AtOrAboveMax(last.rho[j], DensityMaxFor(last.x)))
        => last.outcome = "raised"

C8_MissingInputValueError ==
    phase = "failed" => last.exc = "ValueError" /\ last.msg \notin last.kwargs

\* C9: a parameter_refresh that leaves beadlibrary and crosslibrary as they
\* were leaves sigma_kl, epsilon_kl, lambda_kl, sigma_ij, epsilon_ij and
\* lambda_ij as they were, before or after evaluations; and for every update,
\* refreshing twice gives the store that refreshing once gives.
C9_UnchangedRefresh ==
    /\ [][ (/\ last'.op = "parameter_refresh"
            /\ eos_dict'.beadlibrary = eos_dict.beadlibrary
            /\ eos_dict'.crosslibrary = eos_dict.crosslibrary)
             => DerivedMatrices(eos_dict') = DerivedMatrices(eos_dict) ]_vars
    /\ [](phase = "built" =>
             \A bu \in BeadUpdates, cu \in CrossUpdates :
                 LET once == RefreshDict(eos_dict, bu, cu)
                 IN  RefreshDict(once, bu, cu) = once)

\* C9's case: an object built with a cross interaction and already evaluated
\* has been refreshed with updates equal to the stored values.
C9_Witness ==
    /\ last.op = "parameter_refresh"
    /\ xi \in Compositions
    /\ eos_dict.crosslibrary = CrossAB
    /\ eos_dict.beadlibrary \in Libraries
    /\ DerivedMatrices(eos_dict) =
          DerivedMatrices(InitDict(eos_dict.beadlibrary, eos_dict.crosslibrary))

\* C27 as stated: parameter_refresh is all-or-nothing: a call that raises
\* leaves the bead library, the cross library, the interaction matrices and the
\* cached composition data as they were before the call.
C27_RefreshAllOrNothing ==
    [][ (last'.op = "parameter_refresh" /\ last'.outcome = "raised")
          => eos_dict' = eos_dict ]_vars

\* C28 as stated: after a parameter_refresh that returns, eos_dict['Sk'],
\* eos_dict['Vks'] and eos_dict['massi'] are the values extracted from the
\* updated bead library.
C28_ExtractedFollowLibrary ==
    (phase = "built" /\ last.op = "parameter_refresh" /\ last.outcome = "ok") =>
        /\ eos_dict.Sk = extract_property("Sk", eos_dict.beadlibrary, eos_dict.beads)
        /\ eos_dict.Vks = extract_property("Vks", eos_dict.beadlibrary, eos_dict.beads)
        /\ eos_dict.massi = calc_massi(eos_dict.nui, eos_dict.beadlibrary, eos_dict.beads)

\* reduced_density(rho, xi)[:, 3] at rho = density_max(xi, T); the formula is
\* linear in rho, so it is density_max times its value at unit density.
ZetaAtMax(d) == FracMul(maxrho(d), zeta(d, 1, 3))

\* C11 as stated: for every composition, the m = 3 reduced density at
\* rho = density_max(xi, T) equals maxpack.
C11_InverseAtLimit == last.op = "density_max" => ZetaAtMax(eos_dict) = maxpack

\* C12: for every component of a constructed object, the occupied-volume
\* fractions zki[i,k] = nui[i,k]*Vks[k]*Sk[k] / zkinorm[i] sum to one over k.
C12_FractionsSumToOne ==
    phase = "built" =>
        \A i \in Comps :
            (\E k \in BeadIx : eos_dict.nui[i][k] > 0) =>
                FracSum([k \in BeadIx |-> zki(eos_dict, i, k)], BeadIx) = <<1, 1>>

\* C12's case: a component made of two bead types, after a refresh that
\* changed a bead's shape factor in the library.
C12_Witness ==
    /\ phase = "built" /\ last.op = "parameter_refresh"
    /\ eos_dict.beadlibrary["A"].Sk # eos_dict.Sk[1]
    /\ zki(eos_dict, 2, 1) = <<1, 3>> /\ zki(eos_dict, 2, 2) = <<2, 3>>

NoWells(d) == \A k \in BeadIx, l \in BeadIx : d.epsilon_kl[k][l] = 0

\* C14 as stated: when every epsilon_kl is zero, the first- and second-order
\* terms are zero at every admissible density (so their slopes in the density
\* are zero), and Amonomer is the hard-sphere term alone.
C14_NoWellNoPerturbation ==
    (/\ last.op \in {"Afirst_order", "Asecond_order", "Amonomer"}
     /\ last.outcome = "ok"
     /\ NoWells(eos_dict)) =>
        /\ A1Slope(eos_dict, alphakl) = <<0, 1>>
        /\ A2Slope(eos_dict, alphakl) = <<0, 1>>

PositiveMatrix(m) == \A k \in BeadIx, l \in BeadIx : m[k][l] > 0

\* C25 as stated: with positive epsilon_kl, alphakl, KHS, density and bracket
\* term, Asecond_order returns a negative A2 (the sum of the per-pair terms,
\* negated once); so the slope of A2 in the density is negative.
C25_SecondOrderNegative ==
    (/\ last.op = "Asecond_order" /\ last.outcome = "ok"
     /\ \E j \in 1..Len(last.rho) : last.rho[j] > 0
     /\ PositiveMatrix(eos_dict.epsilon_kl) /\ PositiveMatrix(alphakl)) =>
        A2Slope(eos_dict, alphakl)[1] < 0

\* C26: Achain does not raise over a NaN in its result: when an entry of the
\* computed chain energy is NaN the error is logged and the array is returned
\* with every entry as computed; when no entry is NaN nothing is logged.
C26_ChainNaNLogged ==
    (last.op = "Achain" /\ check_density(last.rho) = "ok") =>
        /\ last.outcome = "ok"
        /\ Len(last.hs) = Len(last.rho)
        /\ \A j \in 1..Len(last.rho) :
               last.hs[j] = ChainSum(eos_dict, last.x, last.kwargs.gii[j], ncomp)
        /\ (last.msg # "") <=> (\E j \in 1..Len(last.hs) : last.hs[j] = "NaN")

\* Two densities, the chain energy NaN at one and a number at the other:
\* logged, and both entries returned.
C26_Witness ==
    /\ last.op = "Achain" /\ last.outcome = "ok" /\ Len(last.rho) = 2
    /\ last.hs = <<"number", "NaN">>
    /\ last.msg # ""

SymmetricSites(geo) ==
    /\ \A k \in BeadIx, l \in BeadIx : geo.rc[k][l] = geo.rc[l][k]
    /\ geo.rd # NoCutoff => \A k \in BeadIx, l \in BeadIx : geo.rd[k][l] = geo.rd[l][k]

\* C15: the dij_bar that calc_Kijklab hands to the bonding-volume routine is
\* symmetric in the component pair; with symmetric rc and rd the bonding
\* volumes are symmetric across component pairs; and the result is the same
\* at every temperature.
C15_BondingVolumeSymmetric ==
    last.op = "calc_Kijklab" =>
        /\ \A i \in Comps, j \in Comps, k \in BeadIx, l \in BeadIx :
               /\ last.hs[i][j][k][l].dij = last.hs[j][i][k][l].dij
               /\ SymmetricSites(last.kwargs.geo) =>
                      last.hs[i][j][k][l] = last.hs[j][i][l][k]
        /\ \A T \in Temperatures :
               last.hs = Kijklab(eos_dict, T, last.kwargs.geo)

\* A call with symmetric site geometry on an object whose components differ
\* in size, after a refresh changed sigma_ij.
C15_Witness ==
    /\ last.op = "calc_Kijklab" /\ last.kwargs.T = 2
    /\ SymmetricSites(last.kwargs.geo) /\ last.kwargs.geo.rd # NoCutoff
    /\ eos_dict.sigma_ij[1][1] # eos_dict.sigma_ij[2][2]
    /\ eos_dict.crosslibrary # NoCross
    /\ last.hs[1][2][1][2].dij # last.hs[1][1][1][2].dij

Symmetric(m) == \A k \in 1..Len(m), l \in 1..Len(m) : m[k][l] = m[l][k]

\* C16: after construction and after every parameter_refresh, the bead-pair
\* matrices sigma_kl, epsilon_kl, lambda_kl and the component-pair matrices
\* sigma_ij, epsilon_ij, lambda_ij are symmetric, also when the cross library
\* holds an override under one ordering of a pair only.
C16_MatricesSymmetric ==
    phase = "built" =>
        /\ Len(eos_dict.sigma_kl) = nbeads /\ Len(eos_dict.sigma_ij) = ncomp
        /\ Symmetric(eos_dict.sigma_kl) /\ Symmetric(eos_dict.epsilon_kl)
        /\ Symmetric(eos_dict.lambda_kl)
        /\ Symmetric(eos_dict.sigma_ij) /\ Symmetric(eos_dict.epsilon_ij)
        /\ Symmetric(eos_dict.lambda_ij)

\* A refresh has stored overrides under one ordering each (sigma under A-B,
\* epsilon under B-A) and both show on either side of the diagonal.
C16_Witness ==
    /\ phase = "built" /\ last.op = "parameter_refresh"
    /\ DOMAIN eos_dict.crosslibrary = {"A", "B"}
    /\ DOMAIN eos_dict.crosslibrary["A"] = {"B"}
    /\ DOMAIN eos_dict.crosslibrary["B"] = {"A"}
    /\ eos_dict.sigma_kl[1][2] = 4 /\ eos_dict.sigma_kl[2][1] = 4
    /\ eos_dict.epsilon_kl[1][2] = 2 /\ eos_dict.epsilon_kl[2][1] = 2

\* C17 as stated: a process started from the shell with an input file calls
\* run with that filename and only with arguments run accepts, so it never
\* fails at the call, and when it ends it has run exactly one of the fit
\* (opt_params among the thermo options) and the thermodynamic calculation.
C17_CommandLineRuns ==
    (proc.entry = "shell" /\ proc.args.input # "") =>
        /\ proc.kwargs \subseteq run_parameters
        /\ proc.step # "failed"
        /\ proc.step = "done" =>
              /\ proc.filename = proc.args.input
              /\ proc.ran = IF "opt_params" \in proc.file THEN <<"fit">> ELSE <<"thermo">>

-----------------------------------------------------------------------------
(* The claim about the batch calculation types *)

\* C7 as stated: in every calculation type, a point whose solver raises is
\* reported as a sentinel record and the batch still returns every point; a
\* batch never ends without its records.
C7_PointFailureContained ==
    (/\ batch.type \in CalcTypes \ {"check_eos"}
     /\ batch.sys.Tlist = batch.sys.xilist /\ batch.sys.Pguess = 0
     /\ ~batch.sys.rhodict /\ batch.l_c = 2) =>
    /\ batch.state # "aborted"
    /\ batch.state = "done" =>
          /\ Len(batch.results) = Len(batch.points)
          /\ \A i \in 1..Len(batch.points) :
                batch.points[i].solver = "raises" =>
                    /\ batch.results[i].value = "NaN"
                    /\ batch.results[i].flag \in {3, None}

\* C13 as stated: flash called on an object whose nui has a number of rows
\* other than two raises a ValueError at its entry and runs no point.
C13_FlashNeedsBinary ==
    (batch.type = "flash" /\ batch.l_c # 2) =>
        /\ batch.state = "aborted"
        /\ batch.exc = "ValueError"
        /\ batch.results = <<>>

\* C18 as stated: phase_yiT called with a Tlist and a yilist of matching
\* lengths hands every point to its wrapper and returns one record per point.
C18_PhaseYiTReturnsRecords ==
    (/\ batch.type = "phase_yiT"
     /\ batch.sys.Tlist \in {1, batch.sys.xilist}
     /\ batch.sys.Pguess = 0) =>
        /\ batch.state # "aborted"
        /\ Len(batch.points) = batch.sys.xilist
        /\ batch.state = "done" => Len(batch.results) = batch.sys.xilist

\* C19 as stated: in every calculation type the ValueError about different
\* numbers of temperatures and mole fraction sets is raised only when the
\* number of temperatures is neither one nor the number of sets, and one
\* temperature with N sets proceeds with N points.
C19_OneTemperatureBroadcast ==
    /\ (batch.exc = "ValueError" /\ batch.msg = SizeMessage) =>
            batch.sys.Tlist \notin {1, batch.sys.xilist}
    /\ (batch.state \in {"running", "done"} /\ batch.sys.Tlist = 1) =>
            /\ Len(batch.points) = batch.sys.xilist
            /\ batch.T_list = Copies(batch.sys.xilist)

\* C20 as stated: in phase_xiT and phase_yiT one pressure guess given for
\* N > 1 points is used at every point and all N points are handed over.
C20_OneGuessBroadcast ==
    (/\ batch.type \in {"phase_xiT", "phase_yiT"}
     /\ batch.sys.Pguess = 1
     /\ batch.sys.xilist > 1
     /\ batch.sys.Tlist \in {1, batch.sys.xilist}) =>
        /\ batch.exc # "NameError"
        /\ batch.exc # "ValueError"
        /\ batch.state \in {"running", "done"} => Len(batch.points) = batch.sys.xilist

\* The call names Tlist, and its second list is left out or as long as Tlist.
ListsAgree(sys) == sys.Tlist >= 1 /\ sys.xilist \in {0, sys.Tlist}

\* C21 as stated: solubility_parameter and check_eos given dT and/or tol move
\* them into the options of every point and hand the points to the job; the
\* keys never keep the calculation from running.
C21_OptionalKeysForwarded ==
    (/\ batch.type \in {"solubility_parameter", "check_eos"}
     /\ batch.sys.options # {}
     /\ ListsAgree(batch.sys)) =>
        /\ batch.exc \in {"", "solver exception"}
        /\ Len(batch.T_list) = batch.sys.Tlist
        /\ batch.opts = batch.sys.options

\* C22 as stated: flash given rhodict stores it in the options of every point,
\* also next to 'mole fraction options', and never fails because of it.
C22_FlashForwardsRhodict ==
    (/\ batch.type = "flash" /\ batch.sys.rhodict
     /\ ListsAgree(batch.sys) /\ batch.l_c = 2) =>
        /\ batch.exc = ""
        /\ Len(batch.T_list) = batch.sys.Tlist
        /\ "rhodict" \in batch.opts

\* C23 as stated: phase_xiT, phase_yiT, liquid_properties and
\* vapor_properties raise ValueError('Tlist or xilist are not specified')
\* whenever Tlist or the composition list is missing, and a missing list
\* produces no other exception.
C23_MissingListValueError ==
    (/\ batch.type \in {"phase_xiT", "phase_yiT", "liquid_properties",
                        "vapor_properties"}
     /\ (batch.sys.Tlist = 0 \/ batch.sys.xilist = 0)) =>
        /\ batch.state = "aborted"
        /\ batch.exc = "ValueError"
        /\ batch.msg = "Tlist or xilist are not specified"

-----------------------------------------------------------------------------
(* The claim about evaluations sharing one object *)

\* C10: while all evaluations running on the shared object have the same
\* composition, whatever the interleaving of their check, store and read
\* steps, every value a worker has read is the value of the pair computed
\* from that composition, and when all have finished the cache holds that
\* pair for that composition.
C10_SameXiSameResult ==
    LET started == {w \in Workers : pc[w] # "idle"}
    IN  (\A v, w \in started : wxi[v] = wxi[w]) =>
            \A w \in started :
                /\ pc[w] \in {"readxskl", "done"} => wloc[w].Cmol2seg = PairOf(wxi[w]).Cmol2seg
                /\ pc[w] = "done" => wloc[w].xskl = PairOf(wxi[w]).xskl
                /\ (\A v \in Workers : pc[v] = "done") =>
                       CachedPair(eos_dict) = PairOf(wxi[w]) /\ xi = wxi[w]

\* C29 as stated: when evaluations with different compositions run
\* concurrently on the shared object, under every interleaving each of them
\* reads the Cmol2seg and the xskl computed from its own composition.
C29_OwnPairRead ==
    (\E v, w \in Workers : pc[v] # "idle" /\ pc[w] # "idle" /\ wxi[v] # wxi[w]) =>
        \A w \in Workers :
            /\ pc[w] \in {"readxskl", "done"} => wloc[w].Cmol2seg = PairOf(wxi[w]).Cmol2seg
            /\ pc[w] = "done" => wloc[w].xskl = PairOf(wxi[w]).xskl

\* C10's case: all workers evaluated the same composition, each of them
\* found the cache stale and recomputed the pair, and all have finished.
C10_Witness ==
    /\ \A w \in Workers : pc[w] = "done" /\ wxi[w] = <<1, 1>>
    /\ \A w \in Workers : wloc[w].computed = PairOf(<<1, 1>>)
    /\ \A w \in Workers : wloc[w].xskl = PairOf(<<1, 1>>).xskl

=============================================================================
